---------------------------- MODULE Spec2Model ----------------------------
(***************************************************************************)
(* Model of the home_media scripts: the two scanners (getmediainfo.py and  *)
(* findmediafiles.py) that fill the catalog table `files` of              *)
(* media_files_staging.db, and the reorganizer (reorder.py) that moves the *)
(* cataloged files into <base>/<photos|videos>/<year>/<name>.              *)
(*                                                                         *)
(* A path is a record [dir, name]: dir is the sequence of directory        *)
(* components below H:\, name is the file name as a sequence of pieces:    *)
(* "." is the dot character, every other piece is a run of characters      *)
(* without a dot, so that "x.jpg" is <<"x", ".", "jpg">>.  A file is a      *)
(* record [content, ctime]: its bytes, which hold the embedded capture date *)
(* if there is one, and the time os.path.getctime returns for it.  A date  *)
(* is a sequence of four-character chunks, so that date_taken[:4] is its   *)
(* first chunk.  A catalog row keeps                                       *)
(* the columns the scripts read back: hash, path, date_taken, duplicate;   *)
(* its id is its position in the catalog (AUTOINCREMENT).  The scripts run *)
(* one at a time (single process, no concurrent access to the catalog).    *)
(***************************************************************************)
EXTENDS Integers, Sequences, FiniteSets, TLC

VARIABLES
    fs,            \* the disk: path -> file or NoFile
    dirs,          \* destination directories that exist
    catalog,       \* table files, in id order
    pc,            \* "idle", "gmi", "fmf", "done", "reorg", "scan_aborted",
                   \* "reorg_aborted"
    images,        \* all_media_files['images'] of the running scan
    videos,        \* all_media_files['videos'] of the running scan
    media_type,    \* 1 = images, 2 = videos: the list being processed
    idx,           \* position of the for loop in the current list / records
    hashes,        \* the in-run seen-set of find_duplicates_and_store
    rescan,        \* the running scan repeats the run completed just before
    file_records,  \* reorder.py: the rows fetched at the start of the run
    moved_files,   \* reorder.py: partial map hash -> destination path
    fs0,           \* the disk when the running reorganizer run started
    movedRows,     \* ids of the rows whose file this reorganizer run moved
    relocated,     \* hashes of the files moved since the catalog last changed
    catalog0,      \* the catalog as the first run of the scripts found it
    killed_at,     \* rows in the catalog when the running scan was killed and
                   \* started again, -1 if it was not
    filename,      \* a file name handed to the two classifications
    walker_list,   \* the list find_media_files puts filename in
    reorder_dir    \* the base directory reorder.py picks for filename

vars == <<fs, dirs, catalog, pc, images, videos, media_type, idx, hashes,
          rescan, file_records, moved_files, fs0, movedRows, relocated,
          catalog0, killed_at, filename, walker_list, reorder_dir>>

scanVars == <<images, videos, media_type, hashes, rescan>>
reorgVars == <<file_records, moved_files, fs0, movedRows>>
rerunVars == <<catalog0, killed_at>>
resumed == killed_at >= 0
classifyVars == <<filename, walker_list, reorder_dir>>

-----------------------------------------------------------------------------
(* Bounds *)

MaxList == 2      \* longest file list handed to find_duplicates_and_store
MaxRows == 2      \* a scan starts only if the catalog cannot outgrow MaxRows
MaxReorgRows == 2 \* rows of a catalog handed to reorder.py alone
MaxPicRows == 3   \* rows findmediafiles.py may leave before reorder.py runs
MaxCuts == 2      \* lengths at which a copy of a file may stop partway
MaxPrior == 1     \* longest list of an earlier run that left the catalog
MaxNameLen == 3   \* pieces of a file name handed to the classifications

-----------------------------------------------------------------------------
(* Configuration and universe *)

IMAGE_EXTENSIONS == {".jpg", ".jpeg", ".png", ".gif", ".bmp", ".tiff"}
VIDEO_EXTENSIONS == {".mp4", ".avi", ".mov", ".mkv", ".wmv", ".flv"}

BASE_LOCATION == <<"My Media">>
BASE_PHOTO_DIR == BASE_LOCATION \o <<"photos">>
BASE_VIDEO_DIR == BASE_LOCATION \o <<"videos">>

\* getmediainfo.py walks H:\My Media, findmediafiles.py walks H:\My Pictures
paths_to_search == {<<"My Media">>}
path_to_search == <<"My Pictures">>

NoFile == [content |-> "none", ctime |-> <<>>]

D2020 == <<"2020", "-06-", "01T1">>
D2021 == <<"2021", "-01-", "01T0">>
Dates == {D2020, D2021}
\* content c1 carries an embedded capture date of 2020, c2 carries none
Files == {[content |-> "c1", ctime |-> D2021],
          [content |-> "c2", ctime |-> D2020],
          [content |-> "c2", ctime |-> D2021]}

\* the time at which reorder.py runs, as getctime would report it
MoveTime == D2021

SrcDirs == {<<"My Media", "A">>, <<"My Media", "B">>, <<"My Pictures", "A">>,
            <<"My Pictures", "B">>}
Years == {d[1] : d \in Dates}
DestDirs == {b \o <<y>> : b \in {BASE_PHOTO_DIR, BASE_VIDEO_DIR}, y \in Years}
Names == {<<"x", ".", "jpg">>, <<"v", ".", "MP4">>, <<"n", ".", "txt">>}
SrcPaths == {[dir |-> <<"My Media", "A">>, name |-> <<"x", ".", "jpg">>],
             [dir |-> <<"My Media", "B">>, name |-> <<"x", ".", "jpg">>],
             [dir |-> <<"My Media", "A">>, name |-> <<"v", ".", "MP4">>]}
PicPaths == {[dir |-> <<"My Pictures", "A">>, name |-> <<"x", ".", "jpg">>]}
PicFiles == {[content |-> "c1", ctime |-> D2021]}
Paths == [dir : SrcDirs \cup DestDirs, name : Names]

\* str.lower() on one piece of a name
Lower(s) ==
    CASE s = "MP4" -> "mp4"
      [] s = "Mp4" -> "mp4"
      [] s = "JPG" -> "jpg"
      [] OTHER -> s

\* str.lower() on a string given as its pieces
str_lower(s) == [i \in DOMAIN s |-> Lower(s[i])]

\* the string a sequence of pieces spells
RECURSIVE Str(_)
Str(s) == IF s = <<>> THEN "" ELSE Head(s) \o Str(Tail(s))

\* str.rfind('.'), counted from 1; 0 when there is no dot
rfind_dot(s) ==
    IF \E i \in DOMAIN s : s[i] = "."
    THEN CHOOSE i \in DOMAIN s : s[i] = "." /\ \A j \in DOMAIN s : s[j] = "." => j <= i
    ELSE 0

\* os.path.splitext(filename)[1]: from the last dot on, unless only dots
\* come before it
splitext_ext(s) ==
    LET dotIndex == rfind_dot(s) IN
    IF dotIndex > 0 /\ \E k \in 1..(dotIndex - 1) : s[k] # "."
    THEN SubSeq(s, dotIndex, Len(s))
    ELSE <<>>

\* pathlib PurePath.suffix of the final component: from the last dot on,
\* unless that dot is the first or the last character of the name
Path_suffix(s) ==
    LET i == rfind_dot(s) IN
    IF 1 < i /\ i < Len(s) THEN SubSeq(s, i, Len(s)) ELSE <<>>

\* the contents of the media files, and what a copy of one that stops partway
\* can leave behind: the first k of MaxCuts + 1 parts of the bytes, which
\* still hold the embedded date, or no bytes at all
Contents == {"c1", "c2"}
CutOf == [c \in Contents |-> [k \in 1..MaxCuts |-> c \o "cut" \o ToString(k)]]
Cuts == {CutOf[c][k] : c \in Contents, k \in 1..MaxCuts}
AllContents == Contents \cup Cuts \cup {"empty"}

\* the proper prefixes of a content, the empty one included
PrefixTable ==
    [x \in AllContents |->
        {"empty"} \cup
        {CutOf[c][j] : c \in {d \in Contents : x = d}, j \in 1..MaxCuts} \cup
        UNION {{CutOf[ck[1]][j] : j \in 1..(ck[2] - 1)} :
                    ck \in {e \in Contents \X (1..MaxCuts) :
                                x = CutOf[e[1]][e[2]]}}]

Prefixes(c) == PrefixTable[c]

\* the contents cut from c, c included
CutsFrom(c) == {c} \cup {CutOf[c][k] : k \in 1..MaxCuts}

\* hashlib.sha1 of the content, as a hex digest: one digest per content
Sha1Table ==
    [x \in AllContents |->
        CASE x = "c1" -> "h1"
          [] x = "c2" -> "h2"
          [] x = "empty" -> "h0"
          [] OTHER -> "h:" \o x]

Sha1(c) == IF c \in AllContents THEN Sha1Table[c] ELSE "h0"

BoundedSeq(S, n) == UNION {[1..k -> S] : k \in 0..n}

\* a single os.walk lists every file once, in the order of the file system
WalkOrders(S, n) ==
    {q \in BoundedSeq(S, n) : \A i, j \in DOMAIN q : q[i] = q[j] => i = j}

-----------------------------------------------------------------------------
(* Catalog store: the SQL statements of the scripts *)

Row(h, p, d, dup) == [hash |-> h, path |-> p, date_taken |-> d, duplicate |-> dup]

\* SELECT COUNT(*) FROM files WHERE path = ?   ... > 0
PathExists(cat, f) == \E i \in DOMAIN cat : cat[i].path = f

\* SELECT hash FROM files WHERE hash = ?   ... fetchone() is not None
HashInDb(cat, h) == \E i \in DOMAIN cat : cat[i].hash = h

\* UPDATE files SET duplicate = duplicate + 1 WHERE hash = ?
update_duplicate_count(cat, h) ==
    [i \in DOMAIN cat |->
        IF cat[i].hash = h THEN [cat[i] EXCEPT !.duplicate = @ + 1] ELSE cat[i]]

\* variant: the row is never committed
insert_file_info_uncommitted(cat, file_info) == cat

\* variant: a duplicate also bumps the counter of the rows it duplicates
insert_file_info_counting(cat, file_info) ==
    Append(IF file_info.duplicate = 1
           THEN update_duplicate_count(cat, file_info.hash) ELSE cat, file_info)

\* INSERT INTO files (...) VALUES (...); commit
insert_file_info(cat, file_info) == Append(cat, file_info)

-----------------------------------------------------------------------------
(* Walker and per-file helpers *)

\* lines 62-68: the list one file name goes to, "none" for neither
media_list(name) ==
    LET ext == Str(str_lower(splitext_ext(name))) IN
    IF ext \in IMAGE_EXTENSIONS THEN "images"
    ELSE IF ext \in VIDEO_EXTENSIONS THEN "videos"
    ELSE "none"

\* os.walk(start_path): every regular file below start_path, put in the
\* list of its name
find_media_files(disk, start_path) ==
    LET below == {p \in Paths : disk[p] # NoFile
                     /\ SubSeq(p.dir, 1, Len(start_path)) = start_path} IN
    [images |-> {p \in below : media_list(p.name) = "images"},
     videos |-> {p \in below : media_list(p.name) = "videos"}]

\* lines 180-184: the walks of all paths_to_search, joined
all_media_files(disk) ==
    [images |-> UNION {find_media_files(disk, r).images : r \in paths_to_search},
     videos |-> UNION {find_media_files(disk, r).videos : r \in paths_to_search}]

hash_file(disk, f) == Sha1(disk[f].content)

\* lines 83-91: the EXIF DateTimeOriginal of an image, as stored; <<>> if
\* the bytes hold none
DateTimeOriginal(c) ==
    IF c \in CutsFrom("c1") THEN <<"2020", ":06:", "01 1">> ELSE <<>>

\* lines 97-101: the creation_date of the video metadata, through
\* strftime("%Y-%m-%d %H:%M:%S"); <<>> if the bytes hold none
creation_date(c) ==
    IF c \in CutsFrom("c1") THEN <<"2020", "-06-", "01 1">> ELSE <<>>

\* datetime.fromtimestamp(os.path.getctime(filepath)).isoformat()
getctime(disk, f) == disk[f].ctime

\* the file names handed to the two classifications
FileNameChars == {".", "a", "jpg", "JPG", "Mp4", "txt"}
FileNames == BoundedSeq(FileNameChars, MaxNameLen) \ {<<>>}

\* Path(filepath).suffix.lower() (getmediainfo.py line 80, reorder.py line
\* 42), for every name of the universe
SuffixLower == [n \in Names \cup FileNames |-> Str(str_lower(Path_suffix(n)))]

\* getmediainfo.py lines 74-110, date_taken: the embedded date of the kind
\* of the file, the creation time when there is none
get_file_info(disk, f) ==
    LET ext == SuffixLower[f.name]
        date_taken == IF ext \in IMAGE_EXTENSIONS
                      THEN DateTimeOriginal(disk[f].content)
                      ELSE IF ext \in VIDEO_EXTENSIONS
                           THEN creation_date(disk[f].content)
                           ELSE <<>>
    IN IF date_taken = <<>> THEN getctime(disk, f) ELSE date_taken

\* findmediafiles.py lines 58-63, date_taken: always the creation time
Fmf_get_file_info(disk, f) == getctime(disk, f)

CurList == IF media_type = 1 THEN images ELSE videos

-----------------------------------------------------------------------------
(* getmediainfo.py *)

\* variant: no path lookup
Gmi_exists_never(cat, f) == FALSE

\* lines 141-142: the path-identity short-circuit
Gmi_exists(cat, f) == PathExists(cat, f)

\* variant: the seen-set alone decides
Gmi_is_duplicate_seen_only(cat, hs, h) == h \in hs

\* lines 150-157: the row is a duplicate
Gmi_is_duplicate(cat, hs, h) == HashInDb(cat, h) \/ h \in hs

\* variant: a file whose content is already cataloged is passed over
Gmi_store_skipping_duplicates(cat, hs, f, h, d) ==
    IF Gmi_exists(cat, f) \/ Gmi_is_duplicate(cat, hs, h)
    THEN [catalog |-> cat, hashes |-> hs]
    ELSE [catalog |-> insert_file_info(cat, Row(h, f, d, 0)),
          hashes |-> hs \cup {h}]

\* lines 141-165: the loop body once hashing and sizing succeeded
Gmi_store(cat, hs, f, h, d) ==
    IF Gmi_exists(cat, f)
    THEN [catalog |-> cat, hashes |-> hs]
    ELSE IF Gmi_is_duplicate(cat, hs, h)
         THEN [catalog |-> insert_file_info(cat, Row(h, f, d, 1)), hashes |-> hs]
         ELSE [catalog |-> insert_file_info(cat, Row(h, f, d, 0)),
               hashes |-> hs \cup {h}]

\* lines 132-165: the whole loop over files that can all be read, from
\* the seen-set hs on
RECURSIVE find_duplicates_and_store(_, _, _, _)
find_duplicates_and_store(cat, hs, files, disk) ==
    IF files = <<>> THEN cat
    ELSE LET f == Head(files)
             r == Gmi_store(cat, hs, f, hash_file(disk, f), get_file_info(disk, f))
         IN find_duplicates_and_store(r.catalog, r.hashes, Tail(files), disk)

\* lines 187-188: one whole run, images then videos, each from an empty
\* seen-set
getmediainfo(cat, imgs, vids, disk) ==
    find_duplicates_and_store(find_duplicates_and_store(cat, {}, imgs, disk),
                              {}, vids, disk)

\* lines 175-188: connect, walk, first call of find_duplicates_and_store.
\* The lists are the walks of the configured roots joined: any order, and a
\* path is listed again when roots overlap
GmiStart ==
    /\ pc \in {"idle", "scan_aborted", "reorg_aborted"}
    /\ \E imgs \in BoundedSeq(all_media_files(fs).images, MaxList),
          vids \in BoundedSeq(all_media_files(fs).videos, MaxList) :
            /\ images' = imgs
            /\ videos' = vids
    /\ pc' = "gmi"
    /\ media_type' = 1
    /\ idx' = 1
    /\ hashes' = {}
    /\ rescan' = FALSE
    /\ UNCHANGED <<fs, dirs, catalog, relocated, reorgVars, rerunVars,
                   classifyVars>>

\* the script is run again right after a completed run, over the same walk
GmiRescan ==
    /\ pc = "done"
    /\ ~rescan
    /\ pc' = "gmi"
    /\ media_type' = 1
    /\ idx' = 1
    /\ hashes' = {}
    /\ rescan' = TRUE
    /\ UNCHANGED <<fs, dirs, catalog, images, videos, relocated, reorgVars,
                   rerunVars, classifyVars>>

\* lines 137-165: one iteration of the for loop; ioerr: open/getsize raises,
\* the exception is not caught and the process dies with its in-memory state
GmiStep ==
    /\ pc = "gmi"
    /\ idx <= Len(CurList)
    /\ \E ioerr \in BOOLEAN :
        LET f == CurList[idx] IN
        IF ioerr \/ fs[f] = NoFile
        THEN /\ pc' = "scan_aborted"
             /\ images' = <<>>
             /\ videos' = <<>>
             /\ media_type' = 1
             /\ idx' = 1
             /\ hashes' = {}
             /\ rescan' = FALSE
             /\ UNCHANGED <<catalog, relocated>>
        ELSE LET r == Gmi_store(catalog, hashes, f, hash_file(fs, f),
                                get_file_info(fs, f)) IN
             /\ catalog' = r.catalog
             /\ hashes' = r.hashes
             /\ idx' = idx + 1
             /\ relocated' = IF r.catalog = catalog THEN relocated ELSE {}
             /\ UNCHANGED <<pc, images, videos, media_type, rescan>>
    /\ UNCHANGED <<fs, dirs, reorgVars, rerunVars, classifyVars>>

\* the process is killed between two iterations and the script is started
\* again over the same walk: the seen-set is lost, the committed rows stay
GmiInterrupt ==
    /\ pc = "gmi"
    /\ ~resumed
    /\ killed_at' = Len(catalog)
    /\ media_type' = 1
    /\ idx' = 1
    /\ hashes' = {}
    /\ UNCHANGED <<fs, dirs, catalog, pc, images, videos, rescan, relocated,
                   catalog0, reorgVars, classifyVars>>

\* lines 187-188: find_duplicates_and_store returns; next media type or end
GmiReturn ==
    /\ pc = "gmi"
    /\ idx > Len(CurList)
    /\ IF media_type = 1
       THEN /\ media_type' = 2
            /\ idx' = 1
            /\ hashes' = {}
            /\ pc' = pc
       ELSE /\ pc' = "done"
            /\ UNCHANGED <<media_type, idx, hashes>>
    /\ UNCHANGED <<fs, dirs, catalog, images, videos, rescan, relocated,
                   reorgVars, rerunVars, classifyVars>>

\* line 191: conn.close(); the process has exited
GmiClose ==
    /\ pc = "done"
    /\ pc' = "idle"
    /\ images' = <<>>
    /\ videos' = <<>>
    /\ media_type' = 1
    /\ idx' = 1
    /\ hashes' = {}
    /\ rescan' = FALSE
    /\ UNCHANGED <<fs, dirs, catalog, relocated, reorgVars, rerunVars,
                   classifyVars>>

-----------------------------------------------------------------------------
(* findmediafiles.py *)

\* lines 91-99: no catalog lookup at all, the seen-set alone decides
Fmf_store(cat, hs, f, h, d) ==
    IF h \in hs
    THEN [catalog |-> insert_file_info(cat, Row(h, f, d, 1)), hashes |-> hs]
    ELSE [catalog |-> insert_file_info(cat, Row(h, f, d, 0)),
          hashes |-> hs \cup {h}]

\* lines 106-115: connect, walk, first call of find_duplicates_and_store
FmfStart ==
    /\ pc \in {"idle", "scan_aborted", "reorg_aborted"}
    /\ \E imgs \in WalkOrders(find_media_files(fs, path_to_search).images, MaxList),
          vids \in WalkOrders(find_media_files(fs, path_to_search).videos, MaxList) :
            /\ images' = imgs
            /\ videos' = vids
    /\ pc' = "fmf"
    /\ media_type' = 1
    /\ idx' = 1
    /\ hashes' = {}
    /\ rescan' = FALSE
    /\ UNCHANGED <<fs, dirs, catalog, relocated, reorgVars, rerunVars,
                   classifyVars>>

\* lines 87-99: one iteration of the for loop; ioerr: open/getsize raises
FmfStep ==
    /\ pc = "fmf"
    /\ idx <= Len(CurList)
    /\ \E ioerr \in BOOLEAN :
        LET f == CurList[idx] IN
        IF ioerr \/ fs[f] = NoFile
        THEN /\ pc' = "scan_aborted"
             /\ images' = <<>>
             /\ videos' = <<>>
             /\ media_type' = 1
             /\ idx' = 1
             /\ hashes' = {}
             /\ UNCHANGED <<catalog, relocated>>
        ELSE LET r == Fmf_store(catalog, hashes, f, hash_file(fs, f),
                                Fmf_get_file_info(fs, f)) IN
             /\ catalog' = r.catalog
             /\ hashes' = r.hashes
             /\ idx' = idx + 1
             /\ relocated' = {}
             /\ UNCHANGED <<pc, images, videos, media_type>>
    /\ UNCHANGED <<fs, dirs, rescan, reorgVars, rerunVars, classifyVars>>

\* lines 114-118: the call returns; next media type, or close and exit
FmfReturn ==
    /\ pc = "fmf"
    /\ idx > Len(CurList)
    /\ IF media_type = 1
       THEN /\ media_type' = 2
            /\ idx' = 1
            /\ hashes' = {}
            /\ UNCHANGED <<pc, images, videos>>
       ELSE /\ pc' = "idle"
            /\ images' = <<>>
            /\ videos' = <<>>
            /\ media_type' = 1
            /\ idx' = 1
            /\ hashes' = {}
    /\ UNCHANGED <<fs, dirs, catalog, rescan, relocated, reorgVars,
                   rerunVars, classifyVars>>

-----------------------------------------------------------------------------
(* reorder.py *)

\* line 32: SELECT path, hash, date_taken FROM files
fetchall(cat) ==
    [i \in DOMAIN cat |-> [path |-> cat[i].path, hash |-> cat[i].hash,
                           date_taken |-> cat[i].date_taken]]

\* lines 42-49: base directory of the kind, <<>> for an unknown file type
base_dir(file_path) ==
    LET ext == SuffixLower[file_path.name] IN
    IF ext \in IMAGE_EXTENSIONS THEN BASE_PHOTO_DIR
    ELSE IF ext \in VIDEO_EXTENSIONS THEN BASE_VIDEO_DIR
    ELSE <<>>

\* line 52: date_taken[:4]
year(date_taken) == date_taken[1]

\* variant: the year is left out of the directory
destination_dir_no_year(rec) == base_dir(rec.path)

\* line 55
destination_dir(rec) == base_dir(rec.path) \o <<year(rec.date_taken)>>

\* line 59: destination_dir joined with Path(file_path).name
destination_path(rec) == [dir |-> destination_dir(rec), name |-> rec.path.name]

\* shutil.move of a regular file: rename, or copy and unlink; a file already
\* at dst is replaced.  ct is what getctime returns for the file afterwards
shutil_move(disk, src, dst, ct) ==
    [disk EXCEPT ![src] = NoFile, ![dst] = [content |-> disk[src].content,
                                            ctime |-> ct]]

\* lines 23-33: connect, fetch all records
ReorgStart ==
    /\ pc \in {"idle", "scan_aborted", "reorg_aborted"}
    /\ catalog # <<>>
    /\ pc' = "reorg"
    /\ file_records' = fetchall(catalog)
    /\ moved_files' = <<>>
    /\ idx' = 1
    /\ fs0' = fs
    /\ movedRows' = {}
    /\ UNCHANGED <<fs, dirs, catalog, relocated, scanVars, rerunVars,
                   classifyVars>>

\* shutil.move that raises after its copy step: rename was refused, the file
\* was copied to dst as a new file, and the unlink of src raised
shutil_copy(disk, src, dst) ==
    [disk EXCEPT ![dst] = [content |-> disk[src].content, ctime |-> MoveTime]]

\* line 63, shutil.move raising while it copies (the disk is full): the
\* destination, created or truncated when the copy opened it, holds cut
\* of the bytes
shutil_copy_partial(disk, dst, cut) ==
    [disk EXCEPT ![dst] = [content |-> cut, ctime |-> MoveTime]]

\* lines 35-70: one iteration of the for loop.  mkfail: os.makedirs raises,
\* whether or not the directory exists (outside the try, the process dies);
\* mvfail: shutil.move raises (caught), before it wrote anything, partway
\* through its copy, or after the whole copy;
\* ct: getctime of the moved file is its creation time, which the move keeps
\* (Windows), or its inode change time, which the move sets (POSIX)
ReorgStep ==
    /\ pc = "reorg"
    /\ idx <= Len(file_records)
    /\ LET rec == file_records[idx] IN
       IF rec.hash \in DOMAIN moved_files \/ base_dir(rec.path) = <<>>
       THEN /\ idx' = idx + 1
            /\ UNCHANGED <<fs, dirs, pc, relocated, reorgVars>>
       ELSE \E mkfail \in BOOLEAN :
            IF mkfail
            THEN /\ pc' = "reorg_aborted"
                 /\ file_records' = <<>>
                 /\ moved_files' = <<>>
                 /\ idx' = 1
                 /\ fs0' = fs
                 /\ movedRows' = {}
                 /\ UNCHANGED <<fs, dirs, relocated>>
            ELSE /\ dirs' = dirs \cup {destination_dir(rec)}
                 /\ idx' = idx + 1
                 /\ \E mvfail \in {m \in BOOLEAN : fs[rec.path] = NoFile => m} :
                    IF mvfail
                    THEN /\ \/ fs' = fs
                            \/ /\ fs[rec.path] # NoFile
                               /\ rec.path # destination_path(rec)
                               /\ \/ fs' = shutil_copy(fs, rec.path,
                                                       destination_path(rec))
                                  \/ \E cut \in Prefixes(fs[rec.path].content) :
                                        fs' = shutil_copy_partial(
                                                fs, destination_path(rec), cut)
                         /\ UNCHANGED <<pc, relocated, reorgVars>>
                    ELSE /\ \E ct \in {fs[rec.path].ctime, MoveTime} :
                                fs' = shutil_move(fs, rec.path,
                                                  destination_path(rec), ct)
                         /\ moved_files' =
                                (rec.hash :> destination_path(rec)) @@ moved_files
                         /\ movedRows' = movedRows \cup {idx}
                         /\ relocated' =
                                IF rec.path = destination_path(rec) THEN relocated
                                ELSE relocated \cup {rec.hash}
                         /\ UNCHANGED <<pc, file_records, fs0>>
    /\ UNCHANGED <<catalog, scanVars, rerunVars, classifyVars>>

\* variant: before closing, the run rewrites the path of every row it moved
ReorgEnd_updating_paths ==
    /\ pc = "reorg"
    /\ idx > Len(file_records)
    /\ pc' = "idle"
    /\ catalog' = [i \in DOMAIN catalog |->
                        IF i \in movedRows
                        THEN [catalog[i] EXCEPT
                                !.path = destination_path(file_records[i])]
                        ELSE catalog[i]]
    /\ file_records' = <<>>
    /\ moved_files' = <<>>
    /\ idx' = 1
    /\ fs0' = fs
    /\ movedRows' = {}
    /\ UNCHANGED <<fs, dirs, relocated, scanVars, rerunVars, classifyVars>>

\* lines 72-74: conn.close(); the process has exited
ReorgEnd ==
    /\ pc = "reorg"
    /\ idx > Len(file_records)
    /\ pc' = "idle"
    /\ file_records' = <<>>
    /\ moved_files' = <<>>
    /\ idx' = 1
    /\ fs0' = fs
    /\ movedRows' = {}
    /\ UNCHANGED <<fs, dirs, catalog, relocated, scanVars, rerunVars,
                   classifyVars>>

-----------------------------------------------------------------------------
(* Initial states *)

\* any choice of media files in the source directories, nothing reorganized
InitFs ==
    {[p \in Paths |-> IF p \in SrcPaths THEN s[p]
                      ELSE IF p \in PicPaths THEN t[p] ELSE NoFile] :
        s \in [SrcPaths -> Files \cup {NoFile}],
        t \in [PicPaths -> PicFiles \cup {NoFile}]}

Init ==
    /\ fs \in InitFs
    /\ dirs = {}
    /\ catalog = <<>>
    /\ pc = "idle"
    /\ images = <<>>
    /\ videos = <<>>
    /\ media_type = 1
    /\ idx = 1
    /\ hashes = {}
    /\ rescan = FALSE
    /\ file_records = <<>>
    /\ moved_files = <<>>
    /\ fs0 = fs
    /\ movedRows = {}
    /\ relocated = {}
    /\ catalog0 = catalog
    /\ killed_at = -1
    /\ filename = <<>>
    /\ walker_list = "unset"
    /\ reorder_dir = <<"unset">>

\* getmediainfo.py alone
NextGmi == GmiStart \/ GmiRescan \/ GmiStep \/ GmiReturn \/ GmiClose

SpecGmi == Init /\ [][NextGmi]_vars

\* the catalog of the whole system is unbounded (findmediafiles.py never
\* skips a path): a scan is started only with room for its whole list
RoomForScan == Len(catalog) + Len(images') + Len(videos') <= MaxRows

\* the three scripts, one run at a time, in any order
Next ==
    \/ (GmiStart /\ RoomForScan) \/ GmiRescan \/ GmiStep \/ GmiReturn \/ GmiClose
    \/ (FmfStart /\ RoomForScan) \/ FmfStep \/ FmfReturn
    \/ ReorgStart \/ ReorgStep \/ ReorgEnd

\* the disks of the whole system hold no more files than the catalog may list
InitSystem ==
    /\ Init
    /\ Cardinality({p \in Paths : fs[p] # NoFile}) <= MaxRows

Spec == InitSystem /\ [][Next]_vars

-----------------------------------------------------------------------------
(* One run of reorder.py, over any catalog file it may be handed *)

UnknownPath == [dir |-> <<"My Media", "A">>, name |-> <<"n", ".", "txt">>]
ReorgRows ==
    [hash : {Sha1(c) : c \in Contents}, path : SrcPaths \cup {UnknownPath},
     date_taken : Dates, duplicate : {0}]

\* the file a row describes: the content of its hash; reorder.py never reads
\* the time of a file, every file carries the same one
FileOf(row) ==
    [content |-> CHOOSE c \in Contents : Sha1(c) = row.hash, ctime |-> MoveTime]

\* every cataloged path holds the file its first row describes, or is missing
DiskOf(cat, present) ==
    [p \in Paths |->
        IF p \in present /\ PathExists(cat, p)
        THEN FileOf(cat[CHOOSE i \in DOMAIN cat :
                           /\ cat[i].path = p
                           /\ \A j \in DOMAIN cat : cat[j].path = p => i <= j])
        ELSE NoFile]

\* reorder.py has read the rows (lines 31-33) of the catalog it was handed
InitReorg ==
    /\ catalog \in BoundedSeq(ReorgRows, MaxReorgRows) \ {<<>>}
    /\ \E present \in SUBSET {catalog[i].path : i \in DOMAIN catalog} :
            fs = DiskOf(catalog, present)
    /\ dirs = {}
    /\ pc = "reorg"
    /\ images = <<>>
    /\ videos = <<>>
    /\ media_type = 1
    /\ idx = 1
    /\ hashes = {}
    /\ rescan = FALSE
    /\ file_records = fetchall(catalog)
    /\ moved_files = <<>>
    /\ fs0 = fs
    /\ movedRows = {}
    /\ relocated = {}
    /\ catalog0 = catalog
    /\ killed_at = -1
    /\ filename = <<>>
    /\ walker_list = "unset"
    /\ reorder_dir = <<"unset">>

\* lines 35-74: the loop over the rows, then the exit
NextReorg == ReorgStep \/ ReorgEnd

SpecReorg == InitReorg /\ [][NextReorg]_vars

-----------------------------------------------------------------------------
(* One run of getmediainfo.py over a catalog that earlier runs left, killed *)
(* and started again at most once *)

\* the catalogs a completed earlier run over part of the disk leaves
PriorCatalogs(disk) ==
    {getmediainfo(<<>>, imgs, vids, disk) :
        imgs \in BoundedSeq(all_media_files(disk).images, MaxPrior),
        vids \in BoundedSeq(all_media_files(disk).videos, MaxPrior)}

\* getmediainfo.py never reads below H:\My Pictures
ScanFs == {disk \in InitFs : \A p \in PicPaths : disk[p] = NoFile}

InitScan ==
    /\ fs \in ScanFs
    /\ catalog \in PriorCatalogs(fs)
    /\ catalog0 = catalog
    /\ killed_at = -1
    /\ dirs = {}
    /\ pc = "idle"
    /\ images = <<>>
    /\ videos = <<>>
    /\ media_type = 1
    /\ idx = 1
    /\ hashes = {}
    /\ rescan = FALSE
    /\ file_records = <<>>
    /\ moved_files = <<>>
    /\ fs0 = fs
    /\ movedRows = {}
    /\ relocated = {}
    /\ filename = <<>>
    /\ walker_list = "unset"
    /\ reorder_dir = <<"unset">>

\* one run, left alone.  The loop of a running script goes on: an iteration
\* or a return that is possible is eventually taken
NextRun == (GmiStart /\ pc = "idle") \/ GmiStep \/ GmiReturn

SpecRun == InitScan /\ [][NextRun]_vars /\ WF_vars(GmiStep) /\ WF_vars(GmiReturn)

\* one run that may be killed and started again
NextScan ==
    (GmiStart /\ pc = "idle") \/ GmiStep \/ GmiInterrupt \/ GmiReturn

SpecScan == InitScan /\ [][NextScan]_vars

\* findmediafiles.py and reorder.py, in any order, over H:\My Pictures
PicturePaths == {[dir |-> <<"My Pictures", "A">>, name |-> <<"x", ".", "jpg">>],
                 [dir |-> <<"My Pictures", "B">>, name |-> <<"x", ".", "jpg">>]}

PictureFs ==
    {[p \in Paths |-> IF p \in PicturePaths THEN t[p] ELSE NoFile] :
        t \in [PicturePaths -> PicFiles \cup {NoFile}]}

InitPictures ==
    /\ fs \in PictureFs
    /\ dirs = {}
    /\ catalog = <<>>
    /\ pc = "idle"
    /\ images = <<>>
    /\ videos = <<>>
    /\ media_type = 1
    /\ idx = 1
    /\ hashes = {}
    /\ rescan = FALSE
    /\ file_records = <<>>
    /\ moved_files = <<>>
    /\ fs0 = fs
    /\ movedRows = {}
    /\ relocated = {}
    /\ catalog0 = catalog
    /\ killed_at = -1
    /\ filename = <<>>
    /\ walker_list = "unset"
    /\ reorder_dir = <<"unset">>

RoomForPictures == Len(catalog) + Len(images') + Len(videos') <= MaxPicRows

NextPictures ==
    \/ (FmfStart /\ RoomForPictures) \/ FmfStep \/ FmfReturn
    \/ ReorgStart \/ ReorgStep \/ ReorgEnd

SpecPictures == InitPictures /\ [][NextPictures]_vars

-----------------------------------------------------------------------------
(* The two classifications of a file name, side by side *)

InitClassify ==
    /\ filename \in FileNames
    /\ walker_list = "unset"
    /\ reorder_dir = <<"unset">>
    /\ fs = [p \in Paths |-> NoFile]
    /\ dirs = {}
    /\ catalog = <<>>
    /\ pc = "idle"
    /\ images = <<>>
    /\ videos = <<>>
    /\ media_type = 1
    /\ idx = 1
    /\ hashes = {}
    /\ rescan = FALSE
    /\ file_records = <<>>
    /\ moved_files = <<>>
    /\ fs0 = fs
    /\ movedRows = {}
    /\ relocated = {}
    /\ catalog0 = catalog
    /\ killed_at = -1

\* getmediainfo.py lines 62-68 on filename
WalkName ==
    /\ walker_list = "unset"
    /\ walker_list' = media_list(filename)
    /\ UNCHANGED <<fs, dirs, catalog, pc, idx, relocated, scanVars, reorgVars,
                   rerunVars, filename, reorder_dir>>

\* reorder.py lines 42-49 on a catalog path whose final component is filename
ReorderName ==
    /\ walker_list # "unset"
    /\ reorder_dir = <<"unset">>
    /\ reorder_dir' = base_dir([dir |-> <<"My Media", "A">>, name |-> filename])
    /\ UNCHANGED <<fs, dirs, catalog, pc, idx, relocated, scanVars, reorgVars,
                   rerunVars, filename, walker_list>>

NextClassify == WalkName \/ ReorderName

SpecClassify == InitClassify /\ [][NextClassify]_vars

-----------------------------------------------------------------------------
(* Properties *)

SameHash(cat, i) == {j \in DOMAIN cat : cat[j].hash = cat[i].hash}

\* C1 (SpecGmi): for every content hash in the catalog, exactly one row with
\* that hash has duplicate = 0, and it is the row with the smallest id.
C1_OneOriginalPerHash ==
    \A i \in DOMAIN catalog :
        \A j \in SameHash(catalog, i) :
            (catalog[j].duplicate = 0) <=> (\A k \in SameHash(catalog, i) : j <= k)

\* a second run has cataloged a copy of content cataloged by an earlier run
C1_Witness ==
    /\ pc = "done"
    /\ Len(catalog) = 3
    /\ Len(images) + Len(videos) = 1
    /\ catalog[3].hash = catalog[1].hash
    /\ catalog[3].duplicate = 1

\* C2 (SpecGmi): a run repeated over the same file lists right after a
\* completed run inserts no rows: the catalog stays as the first run left it.
C2_RescanInsertsNothing == [][rescan => catalog' = catalog]_vars

\* the repeated run has completed over lists whose files the first run inserted
C2_Witness ==
    /\ rescan
    /\ pc = "done"
    /\ Len(images) >= 1
    /\ Len(videos) >= 1
    /\ Len(catalog) >= 2

\* C3 (Spec): within one reorganizer run at most one row per hash has its
\* file moved, and the file of every other row with that hash is still at
\* its catalog path as it was when the run started.
C3_OneMovePerHashInRun ==
    pc = "reorg" =>
        \A i \in movedRows : \A j \in DOMAIN file_records :
            (j # i /\ file_records[j].hash = file_records[i].hash) =>
                /\ j \notin movedRows
                /\ fs[file_records[j].path] = fs0[file_records[j].path]

\* C4 (Spec): a reorganizer run loses no file: every content on disk when
\* the run started is still on disk.
C4_NoFileLost ==
    \A p \in Paths :
        fs0[p] # NoFile =>
            \E q \in Paths : fs[q] # NoFile /\ fs[q].content = fs0[p].content

\* C5 (Spec): over reorganizer runs on an unchanged catalog, at most one
\* physical move is performed per content hash: no run moves the file of a
\* duplicate-flagged row whose hash an earlier run has already relocated.
C5_OneMovePerHashEver ==
    [][(pc = "reorg" /\ idx <= Len(file_records) /\ idx \in movedRows'
            /\ catalog[idx].duplicate = 1
            /\ file_records[idx].path # destination_path(file_records[idx]))
        => file_records[idx].hash \notin relocated]_vars

\* C6 (Spec): no two catalog rows have the same path.
C6_PathUnique ==
    \A i, j \in DOMAIN catalog : catalog[i].path = catalog[j].path => i = j

\* C7 (SpecGmi): an I/O error while hashing or sizing one file does not end
\* the run: the loop goes on with the next file.
C7_IOErrorIsolated == [][pc = "gmi" => pc' \in {"gmi", "done"}]_vars

\* C8 (Spec): a failed move adds nothing to the relocated-map and leaves the
\* source file at its catalog path, and no step of a reorganizer run (a failed
\* move, the year extraction, the directory creation) ends the run before its
\* last record.
C8_ReorgFailureIsolated ==
    [][(pc = "reorg" /\ idx <= Len(file_records)) =>
        /\ pc' # "reorg_aborted"
        /\ (idx' = idx + 1 /\ movedRows' = movedRows) =>
                /\ moved_files' = moved_files
                /\ fs'[file_records[idx].path] = fs[file_records[idx].path]]_vars

\* C9 (SpecGmi): rows are append-only: every step keeps every existing row
\* as it is, in every column.
C9_AppendOnly ==
    [][/\ Len(catalog') >= Len(catalog)
       /\ \A i \in DOMAIN catalog : catalog'[i] = catalog[i]]_vars

\* a duplicate was inserted after the row it duplicates, whose flag is still 0
C9_Witness ==
    \E i, j \in DOMAIN catalog :
        /\ i < j
        /\ catalog[i].hash = catalog[j].hash
        /\ catalog[i].duplicate = 0
        /\ catalog[j].duplicate = 1
        /\ catalog[i].path # catalog[j].path

\* the name ends in a dot and a piece that spells an image / a video suffix
LastPiece(name) == Lower(name[Len(name)])
IsImage(file_path) == ("." \o LastPiece(file_path.name)) \in IMAGE_EXTENSIONS
IsVideo(file_path) == ("." \o LastPiece(file_path.name)) \in VIDEO_EXTENSIONS

ExpectedDestination(rec) ==
    [dir |-> <<"My Media", IF IsImage(rec.path) THEN "photos" ELSE "videos",
               Head(rec.date_taken)>>,
     name |-> rec.path.name]

\* C10 (SpecReorg): a step that moves a row's file puts it at
\* <base of its kind>/<first four characters of date_taken>/<base name> and
\* takes it from its catalog path; a step that writes to the disk at all
\* (a move, or a move that failed during or after its copy) writes the row's
\* content, or a cut-off copy of it, at that path, touches no file but source
\* and destination, and leaves the source alone unless it moved it; a row
\* whose suffix is neither an image nor a video suffix changes neither the
\* disk nor the directories.
C10_Destination ==
    [][(pc = "reorg" /\ idx <= Len(file_records)) =>
        LET rec == file_records[idx]
            dst == ExpectedDestination(rec) IN
        /\ idx \in movedRows' =>
                /\ IsImage(rec.path) \/ IsVideo(rec.path)
                /\ fs'[dst].content = fs[rec.path].content
                /\ fs[rec.path] # NoFile
                /\ dst # rec.path => fs'[rec.path] = NoFile
        /\ fs' # fs =>
                /\ IsImage(rec.path) \/ IsVideo(rec.path)
                /\ fs[rec.path] # NoFile
                /\ fs'[dst].content \in
                        {fs[rec.path].content} \cup Prefixes(fs[rec.path].content)
                /\ \A p \in Paths \ {dst, rec.path} : fs'[p] = fs[p]
                /\ idx \notin movedRows' => fs'[rec.path] = fs[rec.path]
        /\ (~IsImage(rec.path) /\ ~IsVideo(rec.path)) =>
                (fs' = fs /\ dirs' = dirs)]_vars

\* an upper-case video suffix was moved below videos/<year>, after a row of
\* unknown type was passed over
C10_Witness ==
    /\ pc = "reorg"
    /\ \E i \in movedRows :
        /\ file_records[i].path.name[3] = "MP4"
        /\ fs[ExpectedDestination(file_records[i])] # NoFile
        /\ ExpectedDestination(file_records[i]).dir[2] = "videos"
    /\ \E j \in 1..(idx - 1) :
        /\ j <= Len(file_records)
        /\ file_records[j].path = UnknownPath
        /\ fs[UnknownPath] # NoFile

\* a name that starts with a character other than a dot and ends in a dot
\* and one more piece: its extension is that dot and piece
PlainName(name) ==
    /\ Len(name) >= 3
    /\ name[1] # "."
    /\ name[Len(name) - 1] = "."
    /\ name[Len(name)] # "."

Extension(name) == "." \o LastPiece(name)

\* C11 (SpecClassify): a name whose extension, compared case-insensitively,
\* is an image suffix goes to the images list, one with a video suffix to the
\* videos list, every name without a dot to neither list, and reorder.py
\* picks the photo directory exactly for the names the walker lists as
\* images, the video directory exactly for those it lists as videos.
C11_Classification ==
    (walker_list # "unset" /\ reorder_dir # <<"unset">>) =>
        /\ PlainName(filename) =>
                walker_list = (IF Extension(filename) \in IMAGE_EXTENSIONS
                               THEN "images"
                               ELSE IF Extension(filename) \in VIDEO_EXTENSIONS
                                    THEN "videos" ELSE "none")
        /\ rfind_dot(filename) = 0 => walker_list = "none"
        /\ walker_list = "images" <=> reorder_dir = BASE_PHOTO_DIR
        /\ walker_list = "videos" <=> reorder_dir = BASE_VIDEO_DIR

\* C12 (SpecGmi): the iteration for a path that already has a catalog row
\* skips the file whether or not it can still be read: the run goes on with
\* the next file and the catalog stays as it is.
C12_SkipBeforeWork ==
    [][(pc = "gmi" /\ idx <= Len(CurList) /\ PathExists(catalog, CurList[idx]))
        => (pc' = "gmi" /\ idx' = idx + 1 /\ catalog' = catalog)]_vars

\* C13 (SpecReorg): a reorganizer run never writes the catalog: every step
\* of the run leaves every row as it is, and the path column of a row whose
\* file the run has moved still holds the path the file was moved from.
C13_CatalogReadOnly ==
    [][pc = "reorg" =>
        /\ catalog' = catalog
        /\ \A i \in movedRows' : catalog'[i].path = file_records[i].path]_vars

\* the run has moved a file away from the path its row still holds, and ended
\* or gone on
C13_Witness ==
    /\ pc = "reorg"
    /\ idx > Len(file_records)
    /\ \E i \in movedRows :
        /\ fs0[catalog[i].path] # NoFile
        /\ fs[catalog[i].path] = NoFile
        /\ fs[destination_path(file_records[i])].content =
                fs0[catalog[i].path].content

Listed == {images[i] : i \in DOMAIN images} \cup {videos[i] : i \in DOMAIN videos}

RowsOf(cat, f) == {i \in DOMAIN cat : cat[i].path = f}

\* C14 (SpecRun): a running scan ends, completed unless a file
\* operation failed, and when it has completed every path of either list has
\* exactly one row: the row it had before the run, or one row the run
\* inserted.
C14_ScanCompleteness ==
    /\ (pc = "gmi") ~> (pc \in {"done", "scan_aborted"})
    /\ [](pc = "done" =>
            \A f \in Listed :
                /\ Cardinality(RowsOf(catalog, f)) = 1
                /\ \A i \in RowsOf(catalog, f) :
                        i > Len(catalog0) <=> RowsOf(catalog0, f) = {})

\* a completed run skipped a path that had a row, inserted an original and
\* inserted a duplicate
C14_Witness ==
    /\ pc = "done"
    /\ \E f \in Listed : RowsOf(catalog0, f) # {}
    /\ \E i, j \in DOMAIN catalog :
        /\ i > Len(catalog0)
        /\ j > Len(catalog0)
        /\ catalog[i].duplicate = 0
        /\ catalog[j].duplicate = 1

\* C15 (SpecScan): a run that was killed after any number of inserts and
\* started again over the same lists leaves, when it completes, the catalog
\* one uninterrupted run over these lists leaves: the same rows in the same
\* order.
C15_RerunEquivalence ==
    (pc = "done" /\ resumed) =>
        catalog = getmediainfo(catalog0, images, videos, fs)

\* the run was killed after an insert and, started again, skipped that file
\* and flagged a copy of it whose original only the lost seen-set had seen
C15_Witness ==
    /\ pc = "done"
    /\ resumed
    /\ Len(images) = 2
    /\ images[1] # images[2]
    /\ killed_at = Len(catalog0) + 1
    /\ Len(catalog) = Len(catalog0) + 2
    /\ catalog[Len(catalog)].duplicate = 1
    /\ ~HashInDb(catalog0, catalog[Len(catalog)].hash)

\* the run reached row j with no file of its hash moved yet, and tried to
\* move its file
Attempted(j) ==
    /\ base_dir(file_records[j].path) # <<>>
    /\ \A k \in movedRows :
            k < j => file_records[k].hash # file_records[j].hash

AllSourcesExisted ==
    \A j \in DOMAIN file_records : fs0[file_records[j].path] # NoFile

AllMovesSucceeded ==
    \A j \in DOMAIN file_records : (j < idx /\ Attempted(j)) => j \in movedRows

\* row i is the earliest-inserted row with its hash
Earliest(i) ==
    \A j \in DOMAIN catalog : catalog[j].hash = catalog[i].hash => i <= j

\* C16 (SpecPictures): in a reorganizer run the file moved for a hash is
\* the file of the earliest catalog row with that hash whose move succeeded;
\* when every source file existed and every move succeeded it is the file of
\* the earliest row with that hash, that row has duplicate = 0, and the file
\* of every duplicate-flagged row is still where it was.
C16_OriginalIsMoved ==
    pc = "reorg" =>
        /\ \A i \in movedRows :
            /\ file_records[i].path = catalog[i].path
            /\ file_records[i].hash = catalog[i].hash
            /\ moved_files[catalog[i].hash] = destination_path(file_records[i])
            /\ \A j \in DOMAIN catalog :
                    (j < i /\ catalog[j].hash = catalog[i].hash)
                        => j \notin movedRows
        /\ (AllSourcesExisted /\ AllMovesSucceeded) =>
                \A i \in DOMAIN catalog :
                    i < idx =>
                        /\ i \in movedRows <=> Earliest(i)
                        /\ i \in movedRows => catalog[i].duplicate = 0
                        /\ catalog[i].duplicate # 0 =>
                                fs[catalog[i].path] = fs0[catalog[i].path]

\* C17 (SpecGmi): while getmediainfo.py runs, every hash in the seen-set has
\* a committed row, so whenever the hash of the file being decided is in the
\* seen-set the catalog lookup finds it first: the seen-set branch never
\* decides that a row is a duplicate.
C17_SeenSetCataloged ==
    pc = "gmi" =>
        /\ \A h \in hashes : HashInDb(catalog, h)
        /\ (idx <= Len(CurList) /\ fs[CurList[idx]] # NoFile) =>
                (hash_file(fs, CurList[idx]) \in hashes
                    => HashInDb(catalog, hash_file(fs, CurList[idx])))

\* the file about to be decided has no row yet and its hash is in the
\* seen-set
C17_Witness ==
    /\ pc = "gmi"
    /\ idx <= Len(CurList)
    /\ fs[CurList[idx]] # NoFile
    /\ ~PathExists(catalog, CurList[idx])
    /\ hash_file(fs, CurList[idx]) \in hashes

=============================================================================
